---- MODULE Spec2Model ----
(***************************************************************************)
(* A model of fzy-rs (src/src/lib.rs): the subsequence filter has_match    *)
(* and the dynamic-programming scorer score.                               *)
(*                                                                         *)
(* Bytes are the integers 0..255.  Slices and vectors are functions on     *)
(* 0..n-1, so every index below is the index the source uses.              *)
(*                                                                         *)
(* Scores are f64 in the source.  Here a finite score is an integer number *)
(* of thousandths (0.9 is 900, -0.005 is -5) and arithmetic on it is       *)
(* exact; the two infinities are the sentinels SCORE_MIN and SCORE_MAX,    *)
(* which absorb addition the way IEEE infinities do.  Rounding of f64      *)
(* sums is therefore not modelled.                                         *)
(***************************************************************************)
EXTENDS Integers, Sequences, FiniteSets, TLC

VARIABLES pat, text, pc, hm_pi, hm_ti, hm_done, hm_ret,
          bonuses, pi, ti, gap_score, dp, sc_done, sc_ret, panicked

vars == <<pat, text, pc, hm_pi, hm_ti, hm_done, hm_ret,
          bonuses, pi, ti, gap_score, dp, sc_done, sc_ret, panicked>>

----------------------------------------------------------------------------
(* Score constants, in thousandths. *)

SCORE_MIN == -1000000000

SCORE_MAX == 1000000000

SCORE_GAP_LEADING == -5

SCORE_GAP_TRAILING == -5

SCORE_GAP_INNER == -10

SCORE_MATCH_CONSECUTIVE == 1000

SCORE_MATCH_SLASH == 900

SCORE_MATCH_WORD == 800

SCORE_MATCH_CAPITAL == 700

SCORE_MATCH_DOT == 600

(* The largest u8. *)
BYTE_MAX == 255

Byte == 0..BYTE_MAX

(* f64 addition on the modelled values: an infinity absorbs a finite       *)
(* operand.  Opposite infinities are never added by the source.            *)
FAdd(a, b) ==
  IF a = SCORE_MIN \/ b = SCORE_MIN THEN SCORE_MIN
  ELSE IF a = SCORE_MAX \/ b = SCORE_MAX THEN SCORE_MAX
  ELSE a + b

(* (k as Score) * c for a finite constant c. *)
FMul(k, c) == k * c

max(f1, f2) == IF f1 > f2 THEN f1 ELSE f2

----------------------------------------------------------------------------
(* Slices. *)

len(v) == Cardinality(DOMAIN v)

Vec(S, n) == [0..(n - 1) -> S]

VecUpTo(S, n) == UNION {Vec(S, k) : k \in 0..n}

Zeros(n) == [i \in 0..(n - 1) |-> 0]

to_ascii_lowercase_byte(c) == IF c >= 65 /\ c <= 90 THEN c + 32 ELSE c

to_ascii_lowercase(v) == [i \in DOMAIN v |-> to_ascii_lowercase_byte(v[i])]

IsUpper(c) == c >= 65 /\ c <= 90

IsLower(c) == c >= 97 /\ c <= 122

IsDigit(c) == c >= 48 /\ c <= 57

----------------------------------------------------------------------------
(* compute_bonus and compute_bonuses. *)

(* compute_bonus with the capital-after-lowercase arm lost. *)
compute_bonus_NoCapital(cur, prev) ==
  IF IsUpper(cur) \/ IsLower(cur) \/ IsDigit(cur) THEN
    IF prev = 47 THEN SCORE_MATCH_SLASH
    ELSE IF prev = 45 \/ prev = 95 \/ prev = 32 THEN SCORE_MATCH_WORD
    ELSE IF prev = 46 THEN SCORE_MATCH_DOT
    ELSE 0
  ELSE 0

compute_bonus(cur, prev) ==
  IF IsUpper(cur) THEN
    IF IsLower(prev) THEN SCORE_MATCH_CAPITAL
    ELSE IF prev = 47 THEN SCORE_MATCH_SLASH
    ELSE IF prev = 45 \/ prev = 95 \/ prev = 32 THEN SCORE_MATCH_WORD
    ELSE IF prev = 46 THEN SCORE_MATCH_DOT
    ELSE 0
  ELSE IF IsLower(cur) \/ IsDigit(cur) THEN
    IF prev = 47 THEN SCORE_MATCH_SLASH
    ELSE IF prev = 45 \/ prev = 95 \/ prev = 32 THEN SCORE_MATCH_WORD
    ELSE IF prev = 46 THEN SCORE_MATCH_DOT
    ELSE 0
  ELSE 0

(* The fold of compute_bonuses from position i on: prev is the byte before *)
(* position i and acc the vector built so far.                             *)
RECURSIVE BonusFold(_, _, _, _)
BonusFold(t, i, prev, acc) ==
  IF i >= len(t) THEN acc
  ELSE BonusFold(t, i + 1, t[i], [acc EXCEPT ![i] = compute_bonus(t[i], prev)])

compute_bonuses(t) == BonusFold(t, 0, 47, Zeros(len(t)))

----------------------------------------------------------------------------
(* has_match. *)

(* HasMatchBody comparing case-folded bytes, as score does. *)
HasMatchBody_Folded(p, t, hp, ht) ==
  IF hp \notin DOMAIN p THEN [pi |-> hp, ret |-> FALSE, panic |-> TRUE]
  ELSE LET np == IF to_ascii_lowercase_byte(t[ht]) = to_ascii_lowercase_byte(p[hp])
                 THEN hp + 1 ELSE hp
       IN  [pi |-> np, ret |-> (np = len(p)), panic |-> FALSE]

(* One iteration of the loop over text: the new pi and whether the loop    *)
(* returns true.  pat[p] is an indexed read and panics out of bounds.      *)
HasMatchBody(p, t, hp, ht) ==
  IF hp \notin DOMAIN p THEN [pi |-> hp, ret |-> FALSE, panic |-> TRUE]
  ELSE LET np == IF t[ht] = p[hp] THEN hp + 1 ELSE hp
       IN  [pi |-> np, ret |-> (np = len(p)), panic |-> FALSE]

RECURSIVE HasMatchLoop(_, _, _, _)
HasMatchLoop(p, t, hp, ht) ==
  IF ht >= len(t) THEN [ret |-> (hp = len(p)), panic |-> FALSE]
  ELSE LET b == HasMatchBody(p, t, hp, ht)
       IN  IF b.panic THEN [ret |-> FALSE, panic |-> TRUE]
           ELSE IF b.ret THEN [ret |-> TRUE, panic |-> FALSE]
           ELSE HasMatchLoop(p, t, b.pi, ht + 1)

HasMatchRun(p, t) ==
  IF len(p) = 0 THEN [ret |-> TRUE, panic |-> FALSE]
  ELSE HasMatchLoop(p, t, 0, 0)

has_match(p, t) == HasMatchRun(p, t).ret

----------------------------------------------------------------------------
(* score. *)

(* ScoreGuard without the equal-length return. *)
ScoreGuard_NoMax(p, t) ==
  IF len(p) = 0 \/ len(p) > len(t) THEN "min" ELSE "run"

(* ScoreGuard testing equal lengths before emptiness. *)
ScoreGuard_EqualFirst(p, t) ==
  IF len(p) = len(t) THEN "max"
  ELSE IF len(p) = 0 \/ len(p) > len(t) THEN "min"
  ELSE "run"

(* The two early returns of score: "min", "max", or "run" for the DP. *)
ScoreGuard(p, t) ==
  IF len(p) = 0 \/ len(p) > len(t) THEN "min"
  ELSE IF len(p) = len(t) THEN "max"
  ELSE "run"

(* The four rolling buffers and prev_score; panic records an index out of  *)
(* bounds or an unwrap of None, which abort the call.                      *)
InitDp(n) ==
  [prev_d |-> Zeros(n), cur_d |-> Zeros(n),
   prev_m |-> Zeros(n), cur_m |-> Zeros(n),
   prev_score |-> SCORE_MIN, panic |-> FALSE]

(* GapScore charging the inner gap on the last pattern byte too. *)
GapScore_AlwaysInner(p, ppi) == SCORE_GAP_INNER

GapScore(p, ppi) ==
  IF ppi = len(p) - 1 THEN SCORE_GAP_TRAILING ELSE SCORE_GAP_INNER

(* MatchScore without the ti > 0 test: row pi > 0 reads index ti - 1 at    *)
(* ti = 0.                                                                 *)
MatchScore_NoGuard(d, b, ppi, tti) ==
  IF ppi = 0 THEN
    IF tti \notin DOMAIN b THEN [val |-> 0, panic |-> TRUE]
    ELSE [val |-> FAdd(FMul(tti, SCORE_GAP_LEADING), b[tti]), panic |-> FALSE]
  ELSE
    IF (tti - 1) \notin DOMAIN d.prev_m \/ tti \notin DOMAIN b
       \/ (tti - 1) \notin DOMAIN d.prev_d
    THEN [val |-> 0, panic |-> TRUE]
    ELSE [val |-> max(FAdd(d.prev_m[tti - 1], b[tti]),
                      FAdd(d.prev_d[tti - 1], SCORE_MATCH_CONSECUTIVE)),
          panic |-> FALSE]

(* MatchScore scoring a match at ti = 0 in a row pi > 0 as 0.0 instead of  *)
(* SCORE_MIN.                                                              *)
MatchScore_ZeroAtStart(d, b, ppi, tti) ==
  IF ppi = 0 THEN
    IF tti \notin DOMAIN b THEN [val |-> 0, panic |-> TRUE]
    ELSE [val |-> FAdd(FMul(tti, SCORE_GAP_LEADING), b[tti]), panic |-> FALSE]
  ELSE IF tti > 0 THEN
    IF (tti - 1) \notin DOMAIN d.prev_m \/ tti \notin DOMAIN b
       \/ (tti - 1) \notin DOMAIN d.prev_d
    THEN [val |-> 0, panic |-> TRUE]
    ELSE [val |-> max(FAdd(d.prev_m[tti - 1], b[tti]),
                      FAdd(d.prev_d[tti - 1], SCORE_MATCH_CONSECUTIVE)),
          panic |-> FALSE]
  ELSE [val |-> 0, panic |-> FALSE]

(* MatchScore that never extends a run: the consecutive arm is lost. *)
MatchScore_NoConsecutive(d, b, ppi, tti) ==
  IF ppi = 0 THEN
    IF tti \notin DOMAIN b THEN [val |-> 0, panic |-> TRUE]
    ELSE [val |-> FAdd(FMul(tti, SCORE_GAP_LEADING), b[tti]), panic |-> FALSE]
  ELSE IF tti > 0 THEN
    IF (tti - 1) \notin DOMAIN d.prev_m \/ tti \notin DOMAIN b
    THEN [val |-> 0, panic |-> TRUE]
    ELSE [val |-> FAdd(d.prev_m[tti - 1], b[tti]), panic |-> FALSE]
  ELSE [val |-> SCORE_MIN, panic |-> FALSE]

(* let score = ... on a match at (ppi, tti). *)
MatchScore(d, b, ppi, tti) ==
  IF ppi = 0 THEN
    IF tti \notin DOMAIN b THEN [val |-> 0, panic |-> TRUE]
    ELSE [val |-> FAdd(FMul(tti, SCORE_GAP_LEADING), b[tti]), panic |-> FALSE]
  ELSE IF tti > 0 THEN
    IF (tti - 1) \notin DOMAIN d.prev_m \/ tti \notin DOMAIN b
       \/ (tti - 1) \notin DOMAIN d.prev_d
    THEN [val |-> 0, panic |-> TRUE]
    ELSE [val |-> max(FAdd(d.prev_m[tti - 1], b[tti]),
                      FAdd(d.prev_d[tti - 1], SCORE_MATCH_CONSECUTIVE)),
          panic |-> FALSE]
  ELSE [val |-> SCORE_MIN, panic |-> FALSE]

(* InnerBody that leaves prev_score unpenalised on a mismatch. *)
InnerBody_NoGapOnMismatch(d, b, pch, tch, ppi, tti, gap) ==
  IF tti \notin DOMAIN d.cur_d \/ tti \notin DOMAIN d.cur_m
  THEN [d EXCEPT !.panic = TRUE]
  ELSE IF pch = tch THEN
    LET s == MatchScore(d, b, ppi, tti)
        ps == max(s.val, FAdd(d.prev_score, gap))
    IN  IF s.panic THEN [d EXCEPT !.panic = TRUE]
        ELSE [d EXCEPT !.cur_d[tti] = s.val, !.prev_score = ps, !.cur_m[tti] = ps]
  ELSE [d EXCEPT !.cur_d[tti] = SCORE_MIN, !.cur_m[tti] = d.prev_score]

(* The body of the inner loop at (ppi, tti); pc and tc are the folded      *)
(* bytes the two iterators yield.                                          *)
InnerBody(d, b, pch, tch, ppi, tti, gap) ==
  IF tti \notin DOMAIN d.cur_d \/ tti \notin DOMAIN d.cur_m
  THEN [d EXCEPT !.panic = TRUE]
  ELSE IF pch = tch THEN
    LET s == MatchScore(d, b, ppi, tti)
        ps == max(s.val, FAdd(d.prev_score, gap))
    IN  IF s.panic THEN [d EXCEPT !.panic = TRUE]
        ELSE [d EXCEPT !.cur_d[tti] = s.val, !.prev_score = ps, !.cur_m[tti] = ps]
  ELSE
    LET ps == FAdd(d.prev_score, gap)
    IN  [d EXCEPT !.cur_d[tti] = SCORE_MIN, !.prev_score = ps, !.cur_m[tti] = ps]

(* swap(&mut cur_d, &mut prev_d); swap(&mut cur_m, &mut prev_m). *)
SwapBuffers(d) ==
  [d EXCEPT !.prev_d = d.cur_d, !.cur_d = d.prev_d,
            !.prev_m = d.cur_m, !.cur_m = d.prev_m]

RECURSIVE InnerLoop(_, _, _, _, _, _, _)
InnerLoop(d, b, lp, lt, ppi, tti, gap) ==
  IF tti >= len(lt) \/ d.panic THEN d
  ELSE InnerLoop(InnerBody(d, b, lp[ppi], lt[tti], ppi, tti, gap),
                 b, lp, lt, ppi, tti + 1, gap)

(* The outer loop run on the pattern as given, not lowercased. *)
RECURSIVE OuterLoop_PatNotFolded(_, _, _, _, _)
OuterLoop_PatNotFolded(d, b, p, t, ppi) ==
  IF ppi >= len(p) \/ d.panic THEN d
  ELSE LET d1 == InnerLoop([d EXCEPT !.prev_score = SCORE_MIN], b,
                           p, to_ascii_lowercase(t), ppi, 0, GapScore(p, ppi))
       IN  OuterLoop_PatNotFolded(IF d1.panic THEN d1 ELSE SwapBuffers(d1),
                                  b, p, t, ppi + 1)

RECURSIVE OuterLoop(_, _, _, _, _)
OuterLoop(d, b, p, t, ppi) ==
  IF ppi >= len(p) \/ d.panic THEN d
  ELSE LET d1 == InnerLoop([d EXCEPT !.prev_score = SCORE_MIN], b,
                           to_ascii_lowercase(p), to_ascii_lowercase(t),
                           ppi, 0, GapScore(p, ppi))
       IN  OuterLoop(IF d1.panic THEN d1 ELSE SwapBuffers(d1), b, p, t, ppi + 1)

(* *prev_m.last().unwrap() *)
ScoreReturn(d) ==
  IF d.panic \/ len(d.prev_m) = 0 THEN [ret |-> 0, panic |-> TRUE]
  ELSE [ret |-> d.prev_m[len(d.prev_m) - 1], panic |-> FALSE]

ScoreRun(p, t) ==
  LET g == ScoreGuard(p, t)
  IN  IF g = "min" THEN [ret |-> SCORE_MIN, panic |-> FALSE]
      ELSE IF g = "max" THEN [ret |-> SCORE_MAX, panic |-> FALSE]
      ELSE ScoreReturn(OuterLoop(InitDp(len(t)), compute_bonuses(t), p, t, 0))

score(p, t) == ScoreRun(p, t).ret

----------------------------------------------------------------------------
(* The inputs explored. *)

MaxTextLen == 4

MaxPatLen == 3

(* a A b / *)
TextBytes == {97, 65, 98, 47}

(* a A / *)
PatBytes == {97, 65, 47}

Idle == 
  /\ pc = "idle"
  /\ hm_pi = 0 /\ hm_ti = 0 /\ hm_done = FALSE /\ hm_ret = FALSE
  /\ bonuses = <<>> /\ pi = 0 /\ ti = 0 /\ gap_score = 0
  /\ dp = InitDp(0)
  /\ sc_done = FALSE /\ sc_ret = 0 /\ panicked = FALSE

Init ==
  /\ pat \in VecUpTo(PatBytes, MaxPatLen)
  /\ text \in VecUpTo(TextBytes, MaxTextLen)
  /\ Idle

(* A caller runs has_match(pat, text) to completion. *)
CallHasMatch ==
  /\ pc = "idle" /\ ~hm_done
  /\ hm_done' = TRUE
  /\ hm_ret' = HasMatchRun(pat, text).ret
  /\ panicked' = (panicked \/ HasMatchRun(pat, text).panic)
  /\ UNCHANGED <<pat, text, pc, hm_pi, hm_ti, bonuses, pi, ti, gap_score, dp,
                 sc_done, sc_ret>>

(* A caller runs score(pat, text) to completion. *)
CallScore ==
  /\ pc = "idle" /\ ~sc_done
  /\ sc_done' = TRUE
  /\ sc_ret' = ScoreRun(pat, text).ret
  /\ panicked' = (panicked \/ ScoreRun(pat, text).panic)
  /\ UNCHANGED <<pat, text, pc, hm_pi, hm_ti, hm_done, hm_ret, bonuses, pi, ti,
                 gap_score, dp>>

Next == CallHasMatch \/ CallScore

Spec == Init /\ [][Next]_vars

(* The same two calls on inputs chosen for their letter case. *)
CaseMaxTextLen == 4

CaseMaxPatLen == 3

(* a A b *)
CaseTextBytes == {97, 65, 98}

(* a A *)
CasePatBytes == {97, 65}

CaseInit ==
  /\ pat \in VecUpTo(CasePatBytes, CaseMaxPatLen)
  /\ text \in VecUpTo(CaseTextBytes, CaseMaxTextLen)
  /\ Idle

CaseSpec == CaseInit /\ [][Next]_vars

----------------------------------------------------------------------------
(* The two calls taken one loop iteration at a time. *)

StepMaxTextLen == 3

StepMaxPatLen == 2

(* a A / *)
StepTextBytes == {97, 65, 47}

(* a A *)
StepPatBytes == {97, 65}

StepInit ==
  /\ pat \in VecUpTo(StepPatBytes, StepMaxPatLen)
  /\ text \in VecUpTo(StepTextBytes, StepMaxTextLen)
  /\ Idle

(* has_match is entered: the empty pattern returns at once. *)
HmEnter ==
  /\ pc = "idle" /\ ~hm_done
  /\ IF len(pat) = 0
     THEN hm_done' = TRUE /\ hm_ret' = TRUE /\ pc' = "idle"
     ELSE hm_done' = FALSE /\ hm_ret' = FALSE /\ pc' = "hm_loop"
  /\ hm_pi' = 0 /\ hm_ti' = 0
  /\ UNCHANGED <<pat, text, bonuses, pi, ti, gap_score, dp, sc_done, sc_ret,
                 panicked>>

(* One iteration of for tc in text. *)
HmIter ==
  /\ pc = "hm_loop" /\ hm_ti < len(text)
  /\ LET b == HasMatchBody(pat, text, hm_pi, hm_ti)
     IN  IF b.panic
         THEN /\ panicked' = TRUE /\ pc' = "panic"
              /\ UNCHANGED <<hm_pi, hm_ti, hm_done, hm_ret>>
         ELSE IF b.ret
         THEN /\ hm_done' = TRUE /\ hm_ret' = TRUE /\ pc' = "idle"
              /\ hm_pi' = b.pi
              /\ UNCHANGED <<hm_ti, panicked>>
         ELSE /\ hm_pi' = b.pi /\ hm_ti' = hm_ti + 1
              /\ UNCHANGED <<pc, hm_done, hm_ret, panicked>>
  /\ UNCHANGED <<pat, text, bonuses, pi, ti, gap_score, dp, sc_done, sc_ret>>

(* The loop is exhausted: return pi == pat.len(). *)
HmExit ==
  /\ pc = "hm_loop" /\ hm_ti >= len(text)
  /\ hm_done' = TRUE /\ hm_ret' = (hm_pi = len(pat)) /\ pc' = "idle"
  /\ UNCHANGED <<pat, text, hm_pi, hm_ti, bonuses, pi, ti, gap_score, dp,
                 sc_done, sc_ret, panicked>>

(* score is entered: the early returns, or the bonus table and the four    *)
(* buffers are built.                                                      *)
ScEnter ==
  /\ pc = "idle" /\ ~sc_done
  /\ LET g == ScoreGuard(pat, text)
     IN  IF g = "min"
         THEN /\ sc_done' = TRUE /\ sc_ret' = SCORE_MIN
              /\ UNCHANGED <<pc, bonuses, dp, pi>>
         ELSE IF g = "max"
         THEN /\ sc_done' = TRUE /\ sc_ret' = SCORE_MAX
              /\ UNCHANGED <<pc, bonuses, dp, pi>>
         ELSE /\ bonuses' = compute_bonuses(text)
              /\ dp' = InitDp(len(text))
              /\ pi' = 0 /\ pc' = "sc_outer"
              /\ UNCHANGED <<sc_done, sc_ret>>
  /\ UNCHANGED <<pat, text, hm_pi, hm_ti, hm_done, hm_ret, ti, gap_score,
                 panicked>>

(* The head of one outer iteration. *)
ScOuter ==
  /\ pc = "sc_outer" /\ pi < len(pat)
  /\ dp' = [dp EXCEPT !.prev_score = SCORE_MIN]
  /\ gap_score' = GapScore(pat, pi)
  /\ ti' = 0 /\ pc' = "sc_inner"
  /\ UNCHANGED <<pat, text, hm_pi, hm_ti, hm_done, hm_ret, bonuses, pi,
                 sc_done, sc_ret, panicked>>

(* One iteration of the inner loop. *)
ScInner ==
  /\ pc = "sc_inner" /\ ti < len(text)
  /\ LET d == InnerBody(dp, bonuses, to_ascii_lowercase(pat)[pi],
                        to_ascii_lowercase(text)[ti], pi, ti, gap_score)
     IN  /\ dp' = d
         /\ IF d.panic
            THEN panicked' = TRUE /\ pc' = "panic" /\ ti' = ti
            ELSE panicked' = panicked /\ pc' = pc /\ ti' = ti + 1
  /\ UNCHANGED <<pat, text, hm_pi, hm_ti, hm_done, hm_ret, bonuses, pi,
                 gap_score, sc_done, sc_ret>>

(* The inner loop is exhausted: the buffers are swapped. *)
ScSwap ==
  /\ pc = "sc_inner" /\ ti >= len(text)
  /\ dp' = SwapBuffers(dp)
  /\ pi' = pi + 1 /\ pc' = "sc_outer"
  /\ UNCHANGED <<pat, text, hm_pi, hm_ti, hm_done, hm_ret, bonuses, ti,
                 gap_score, sc_done, sc_ret, panicked>>

(* The outer loop is exhausted: *prev_m.last().unwrap(). *)
ScReturn ==
  /\ pc = "sc_outer" /\ pi >= len(pat)
  /\ LET r == ScoreReturn(dp)
     IN  IF r.panic
         THEN panicked' = TRUE /\ pc' = "panic" /\ UNCHANGED <<sc_done, sc_ret>>
         ELSE sc_done' = TRUE /\ sc_ret' = r.ret /\ pc' = "idle"
              /\ UNCHANGED panicked
  /\ UNCHANGED <<pat, text, hm_pi, hm_ti, hm_done, hm_ret, bonuses, pi, ti,
                 gap_score, dp>>

StepNext ==
  \/ HmEnter \/ HmIter \/ HmExit
  \/ ScEnter \/ ScOuter \/ ScInner \/ ScSwap \/ ScReturn

(* Neither call blocks or waits: a call that can take a step takes it. *)
StepSpec == StepInit /\ [][StepNext]_vars /\ WF_vars(StepNext)

----------------------------------------------------------------------------
(* compute_bonuses on its own: every pair of bytes, and short texts. *)

MaxBonusLen == 3

(* a A / - _ space . 0 * *)
BonusBytes == {97, 65, 47, 45, 95, 32, 46, 48, 42}

BonusInit ==
  /\ pat = <<>>
  /\ text \in Vec(Byte, 2) \cup VecUpTo(BonusBytes, MaxBonusLen)
  /\ Idle

CallComputeBonuses ==
  /\ pc = "idle"
  /\ bonuses' = compute_bonuses(text)
  /\ pc' = "bonus_done"
  /\ UNCHANGED <<pat, text, hm_pi, hm_ti, hm_done, hm_ret, pi, ti, gap_score,
                 dp, sc_done, sc_ret, panicked>>

BonusNext == CallComputeBonuses

BonusSpec == BonusInit /\ [][BonusNext]_vars

----------------------------------------------------------------------------
(* What the claims speak of: alignments and their scores. *)

(* The strictly increasing maps of pattern positions to text positions. *)
RECURSIVE IncreasingMaps(_, _)
IncreasingMaps(k, n) ==
  IF k = 0 THEN {<<>>}
  ELSE UNION {{[i \in 0..(k - 1) |-> IF i = k - 1 THEN x ELSE f[i]] :
                 x \in (IF k = 1 THEN 0 ELSE f[k - 2] + 1)..(n - 1)} :
              f \in IncreasingMaps(k - 1, n)}

Increasing(p, t) == IncreasingMaps(len(p), len(t))

(* P is a subsequence of T under exact byte equality. *)
IsSubsequence(p, t) ==
  \E f \in Increasing(p, t) : \A k \in DOMAIN p : t[f[k]] = p[k]

(* The alignments of P in T under case-folded comparison. *)
Alignments(p, t) ==
  {f \in Increasing(p, t) :
     \A k \in DOMAIN p :
       to_ascii_lowercase_byte(t[f[k]]) = to_ascii_lowercase_byte(p[k])}

RECURSIVE StepSum(_, _, _)
StepSum(f, b, k) ==
  IF k = 0 THEN 0
  ELSE StepSum(f, b, k - 1)
       + (IF f[k] = f[k - 1] + 1 THEN SCORE_MATCH_CONSECUTIVE
          ELSE (f[k] - f[k - 1] - 1) * SCORE_GAP_INNER + b[f[k]])

(* The score of alignment f of a pattern of n > 0 bytes in text t. *)
AlignScore(f, n, t) ==
  LET b == compute_bonuses(t)
  IN  f[0] * SCORE_GAP_LEADING + b[f[0]]
      + StepSum(f, b, n - 1)
      + (len(t) - 1 - f[n - 1]) * SCORE_GAP_TRAILING

AlignScores(p, t) == {AlignScore(f, len(p), t) : f \in Alignments(p, t)}

IsContiguous(f, n) == f[n - 1] - f[0] = n - 1

(* The bytes that differ from c at most in ASCII letter case. *)
CaseOf(c) ==
  {c} \cup (IF IsUpper(c) THEN {c + 32} ELSE {})
      \cup (IF IsLower(c) THEN {c - 32} ELSE {})

(* The case variants of the first k bytes of v. *)
RECURSIVE CasePrefixes(_, _)
CasePrefixes(v, k) ==
  IF k = 0 THEN {<<>>}
  ELSE UNION {{[i \in 0..(k - 1) |-> IF i = k - 1 THEN c ELSE w[i]] :
                 c \in CaseOf(v[k - 1])} :
              w \in CasePrefixes(v, k - 1)}

(* The byte strings that differ from v at most in ASCII letter case. *)
CaseVariants(v) == CasePrefixes(v, len(v))

Push(v, c) == [i \in 0..len(v) |-> IF i = len(v) THEN c ELSE v[i]]

Unshift(c, v) == [i \in 0..len(v) |-> IF i = 0 THEN c ELSE v[i - 1]]

Finite(x) == x # SCORE_MIN /\ x # SCORE_MAX

InRange == len(pat) > 0 /\ len(pat) < len(text)

----------------------------------------------------------------------------
(* C1: has_match(P,T) returns true exactly when P is empty or P is a       *)
(* subsequence of T under exact byte equality, with no case folding.       *)
C1_HasMatchIffSubsequence ==
  hm_done => (hm_ret <=> (len(pat) = 0 \/ IsSubsequence(pat, text)))

(* has_match returned true on a pattern matched across a gap of two text   *)
(* bytes.                                                                  *)
C1_Witness ==
  /\ hm_done /\ hm_ret /\ len(pat) = 2 /\ len(text) = 4
  /\ text[0] = pat[0] /\ text[1] # pat[1] /\ text[2] # pat[1] /\ text[3] = pat[1]

(* C2: for 0 < len(P) < len(T) the DP returns the score of the             *)
(* best-scoring case-folded alignment: leading gap and bonus of the first  *)
(* match, then per further match the consecutive bonus or inner gaps plus  *)
(* bonus, then the trailing gap.                                           *)
C2_ScoreIsBestAlignment ==
  (sc_done /\ InRange /\ Alignments(pat, text) # {}) =>
     /\ sc_ret \in AlignScores(pat, text)
     /\ \A s \in AlignScores(pat, text) : s <= sc_ret

(* score returned on an input with several alignments of different score.  *)
C2_Witness ==
  /\ sc_done /\ InRange /\ len(pat) = 3
  /\ Cardinality(AlignScores(pat, text)) >= 3

(* C3: score returns SCORE_MAX whenever len(P) = len(T) and P is           *)
(* non-empty, whatever the bytes.                                          *)
C3_EqualLengthIsMax ==
  (sc_done /\ len(pat) = len(text) /\ len(pat) > 0) => sc_ret = SCORE_MAX

(* score returned on equal lengths where P is not even a folded            *)
(* subsequence of T.                                                       *)
C3_Witness ==
  /\ sc_done /\ len(pat) = 2 /\ len(text) = 2 /\ sc_ret = SCORE_MAX
  /\ Alignments(pat, text) = {}

(* C4: score returns SCORE_MIN whenever P is empty or longer than T; the   *)
(* empty check comes first, so score of two empty inputs is SCORE_MIN.     *)
C4_EmptyOrLongerIsMin ==
  (sc_done /\ (len(pat) = 0 \/ len(pat) > len(text))) => sc_ret = SCORE_MIN

(* score returned SCORE_MIN on the empty pattern and the empty text.       *)
C4_Witness ==
  sc_done /\ len(pat) = 0 /\ len(text) = 0 /\ sc_ret = SCORE_MIN

(* C6 as stated: where folded P occurs contiguously in folded T, every    *)
(* contiguous alignment scores strictly higher than every alignment with   *)
(* a gap, so score(P,T) is the score of a contiguous alignment.            *)
C6_ContiguousBeatsEveryGapped ==
  (sc_done /\ len(pat) > 1 /\ len(pat) < len(text)) =>
     \A c \in Alignments(pat, text) :
       IsContiguous(c, len(pat)) =>
         /\ \A g \in Alignments(pat, text) :
              ~IsContiguous(g, len(pat))
                => AlignScore(c, len(pat), text) > AlignScore(g, len(pat), text)
         /\ \E k \in Alignments(pat, text) :
              IsContiguous(k, len(pat)) /\ sc_ret = AlignScore(k, len(pat), text)

(* C6, amended: every contiguous alignment scores strictly higher than     *)
(* every gapped alignment that starts at the same text position, and       *)
(* score(P,T) is at least the score of every contiguous alignment, hence   *)
(* strictly above each such gapped one.                                    *)
C6_ContiguousBeatsGappedFromSameStart ==
  (sc_done /\ len(pat) > 1 /\ len(pat) < len(text)) =>
     \A c \in Alignments(pat, text) :
       IsContiguous(c, len(pat)) =>
         /\ sc_ret >= AlignScore(c, len(pat), text)
         /\ \A g \in Alignments(pat, text) :
              (~IsContiguous(g, len(pat)) /\ g[0] = c[0])
                => /\ AlignScore(c, len(pat), text) > AlignScore(g, len(pat), text)
                   /\ sc_ret > AlignScore(g, len(pat), text)

(* score returned where a contiguous alignment and a gapped alignment      *)
(* from the same start both exist, the gapped one ending on a bonus        *)
(* position.                                                               *)
C6_Witness ==
  /\ sc_done /\ len(pat) > 1 /\ len(pat) < len(text)
  /\ \E c, g \in Alignments(pat, text) :
       /\ IsContiguous(c, len(pat)) /\ ~IsContiguous(g, len(pat)) /\ g[0] = c[0]
       /\ compute_bonuses(text)[g[len(pat) - 1]] > 0

(* C8: score folds case when comparing but takes bonuses from the text as  *)
(* given: patterns that differ only in letter case score alike on every    *)
(* text; a text that differs only in letter case is matchable exactly when *)
(* the original is, and its score is that of the same DP run with only the *)
(* bonus table exchanged, so equal bonus tables give equal scores.         *)
C8_CaseFoldedMatchOriginalCaseBonus ==
  sc_done =>
    /\ \A q \in CaseVariants(pat) : score(q, text) = sc_ret
    /\ \A u \in CaseVariants(text) :
         \A su \in {score(pat, u)}, bu \in {compute_bonuses(u)} :
           /\ to_ascii_lowercase(u) = to_ascii_lowercase(text)
           /\ Alignments(pat, u) = Alignments(pat, text)
           /\ (su = SCORE_MIN) <=> (sc_ret = SCORE_MIN)
           /\ InRange =>
                su = ScoreReturn(OuterLoop(InitDp(len(text)), bu, pat, text, 0)).ret
           /\ bu = compute_bonuses(text) => su = sc_ret

(* score returned a finite value for a pattern with an uppercase letter on *)
(* a text that has one case variant of equal score and one of different    *)
(* score.                                                                  *)
C8_Witness ==
  /\ sc_done /\ InRange /\ Finite(sc_ret)
  /\ \E k \in DOMAIN pat : IsUpper(pat[k])
  /\ \E u \in CaseVariants(text) : u # text /\ score(pat, u) = sc_ret
  /\ \E u \in CaseVariants(text) : score(pat, u) # sc_ret

(* The bytes tried as the appended byte c. *)
AppendBytes == TextBytes \cup {42, 46, 66}

C10_MinIffNoAlignment ==
  (sc_done /\ InRange) =>
     /\ (sc_ret = SCORE_MIN) <=> (Alignments(pat, text) = {})
     /\ Alignments(pat, text) # {} => (SCORE_MIN < sc_ret /\ sc_ret < SCORE_MAX)

(* C10, second part: for non-empty P, has_match true implies a score above *)
(* SCORE_MIN.                                                              *)
C10_FilterPassImpliesRankable ==
  (sc_done /\ hm_done /\ len(pat) > 0 /\ hm_ret) => sc_ret > SCORE_MIN

(* C10 as stated: the two parts, and for every non-empty P the converse    *)
(* fails only through letter case: a score above SCORE_MIN without a       *)
(* match means the folded pattern matches the folded text.                 *)
C10_ConverseFailsOnlyThroughCase ==
  /\ C10_MinIffNoAlignment
  /\ C10_FilterPassImpliesRankable
  /\ (sc_done /\ hm_done /\ len(pat) > 0 /\ sc_ret > SCORE_MIN /\ ~hm_ret)
       => has_match(to_ascii_lowercase(pat), to_ascii_lowercase(text))

(* C10, amended: the two parts, and the converse fails only through letter *)
(* case when len(P) < len(T); on equal lengths score is SCORE_MAX whether  *)
(* or not anything matches.                                                *)
C10_ConverseFailsThroughCaseOrEqualLength ==
  /\ C10_MinIffNoAlignment
  /\ C10_FilterPassImpliesRankable
  /\ (sc_done /\ hm_done /\ len(pat) > 0 /\ sc_ret > SCORE_MIN /\ ~hm_ret)
       => \/ /\ len(pat) < len(text)
             /\ has_match(to_ascii_lowercase(pat), to_ascii_lowercase(text))
          \/ len(pat) = len(text) /\ sc_ret = SCORE_MAX

(* Both calls returned: has_match false and a finite score, on a pattern   *)
(* that matches only after case folding.                                   *)
C10_Witness ==
  /\ sc_done /\ hm_done /\ InRange /\ ~hm_ret /\ Finite(sc_ret)
  /\ len(pat) >= 2

(* The bonus as C5 tabulates it, from a byte and its predecessor. *)
IsAlnum(c) == IsUpper(c) \/ IsLower(c) \/ IsDigit(c)

BonusTable(c, prev) ==
  IF IsAlnum(c) /\ prev = 47 THEN 900
  ELSE IF IsAlnum(c) /\ prev \in {45, 95, 32} THEN 800
  ELSE IF IsAlnum(c) /\ prev = 46 THEN 600
  ELSE IF IsUpper(c) /\ IsLower(prev) THEN 700
  ELSE 0

(* C5: the bonus table has exactly len(T) entries, and entry i is the      *)
(* tabulated function of T[i] and its predecessor (a virtual '/' before    *)
(* position 0), taken from the text in its original case.                  *)
C5_BonusTable ==
  pc = "bonus_done" =>
    /\ DOMAIN bonuses = DOMAIN text
    /\ \A i \in DOMAIN text :
         bonuses[i] = BonusTable(text[i], IF i = 0 THEN 47 ELSE text[i - 1])

(* compute_bonuses returned on a lowercase letter followed by a capital:   *)
(* the slash bonus at position 0 and the capital bonus at position 1.      *)
C5_Witness ==
  /\ pc = "bonus_done" /\ len(text) = 2
  /\ IsLower(text[0]) /\ IsUpper(text[1])
  /\ bonuses[0] = SCORE_MATCH_SLASH /\ bonuses[1] = SCORE_MATCH_CAPITAL

(* The indexed reads and writes about to be made are in bounds. *)
IndexInBounds ==
  /\ (pc = "hm_loop" /\ hm_ti < len(text)) => hm_pi < len(pat)
  /\ (pc = "sc_inner" /\ ti < len(text)) =>
       /\ ti \in DOMAIN bonuses /\ ti \in DOMAIN dp.cur_d /\ ti \in DOMAIN dp.cur_m
       /\ ~InnerBody(dp, bonuses, to_ascii_lowercase(pat)[pi],
                     to_ascii_lowercase(text)[ti], pi, ti, gap_score).panic
  /\ (pc = "sc_outer" /\ pi >= len(pat)) => len(dp.prev_m) >= 1 /\ len(text) >= 1

(* C7: has_match and score are total: no call panics on an index or on     *)
(* the final unwrap, every index used is in bounds, and both calls return. *)
C7_Total ==
  /\ [](~panicked /\ pc # "panic" /\ IndexInBounds)
  /\ <>(hm_done /\ sc_done /\ pc = "idle")

(* Both calls returned after the DP met, in a row pi > 0, a match at       *)
(* ti = 0, where ti - 1 does not exist.                                    *)
C7_Witness ==
  /\ hm_done /\ sc_done /\ pc = "idle" /\ ~panicked
  /\ len(pat) = 2 /\ len(text) = 3
  /\ to_ascii_lowercase_byte(pat[1]) = to_ascii_lowercase_byte(text[0])

====
